---- MODULE Spec2Model ----
(***************************************************************************)
(* FitHub: the relational schema of supabase/migrations (tables, views,    *)
(* triggers, stored procedures, row-level security) and the pages that     *)
(* call the hosted SDK (LoginPage, RegisterPage, Navbar, ClientDashboard,  *)
(* AdminDashboard).                                                        *)
(*                                                                         *)
(* Every SQL statement and every procedure call is one transaction: it     *)
(* either commits all its effects, triggers included, or raises and leaves *)
(* the tables as they were.  The variable db records the last statement    *)
(* and its outcome.                                                        *)
(*                                                                         *)
(* user_memberships and payments are multisets of rows: their id column is *)
(* a generated UUID that no foreign key references and no trigger reads.   *)
(***************************************************************************)
EXTENDS Integers, Sequences, FiniteSets, Bags, TLC

VARIABLES users, profiles, trainers, user_memberships, payments, audit_logs,
          today, db,
          authUsers, session, formData, regFormData, ui,
          result, screen, txns

dbvars == <<users, profiles, trainers, user_memberships, payments, audit_logs, today, db>>
uivars == <<authUsers, session, formData, regFormData, ui>>
readvars == <<result, screen, txns>>
vars == <<users, profiles, trainers, user_memberships, payments, audit_logs,
          today, db, authUsers, session, formData, regFormData, ui,
          result, screen, txns>>

\* SQL NULL (JavaScript null/undefined) of a text or uuid value, and of a number or date.
NULL == "NULL"

NULLNUM == 0 - 1

\* SQL NULL of a text held as a sequence of characters.
NULLTEXT == <<"NULL">>

\* ---------------------------------------------------------------- bounds
MaxTrainerRows == 11
MaxMemberships == 2
MaxPayments == 1
Day0 == 40
MaxToday == 41
MaxAudit == 3
MaxAdminPayments == 3

\* ------------------------------------------------------------ enum types
user_role == {"admin", "client", "trainer"}
membership_status == {"active", "expired", "cancelled"}
payment_status == {"pending", "completed", "failed"}

\* ------------------------------------------------------------- calendar
\* A DATE is a day number, day 0 being 1 January of a common year.
MonthLen == <<31, 28, 31, 30, 31, 30, 31, 31, 30, 31, 30, 31>>

RECURSIVE DaysBefore(_)
DaysBefore(m) == IF m = 0 THEN 0 ELSE DaysBefore(m - 1) + MonthLen[((m - 1) % 12) + 1]

MonthOf(d) == CHOOSE m \in 0..60 : DaysBefore(m) <= d /\ d < DaysBefore(m + 1)

DayOfMonth(d) == d - DaysBefore(MonthOf(d)) + 1

\* date + n * INTERVAL '1 month': same day of the month n months on, cut to
\* the last day of that month.
AddMonths(d, n) ==
  LET m == MonthOf(d) + n
      len == MonthLen[(m % 12) + 1]
      dom == IF DayOfMonth(d) > len THEN len ELSE DayOfMonth(d)
  IN DaysBefore(m) + dom - 1

\* --------------------------------------------------------------- tables
\* The membership plans: reference rows no modelled operation changes.
memberships ==
  [m1 |-> [name |-> <<"M", "o">>, duration_months |-> 1, price |-> 30],
   m2 |-> [name |-> <<"Y", "r">>, duration_months |-> 12, price |-> 300]]

MembershipIds == {"m1", "m2"}

\* SQL equality: NULL equals nothing, itself included.
SqlEq(a, b) == a # NULL /\ b # NULL /\ a = b

RECURSIVE SumCounts(_, _)
SumCounts(B, S) ==
  IF S = {} THEN 0
  ELSE LET r == CHOOSE x \in S : TRUE IN B[r] + SumCounts(B, S \ {r})

\* SELECT COUNT(*) FROM table WHERE row \in S
CountRows(B, S) == SumCounts(B, S \cap DOMAIN B)

\* The table after an UPDATE that rewrites each row r as f[r].
UpdateRows(B, f) ==
  LET img == {f[r] : r \in DOMAIN B}
  IN [x \in img |-> SumCounts(B, {r \in DOMAIN B : f[r] = x})]

InsertRow(B, r) == B (+) SetToBag({r})

DeleteRow(B, r) == B (-) SetToBag({r})

\* db: the last statement (for a page's fetch, the last SELECT it sent), its
\* row or arguments, whether it committed, the error it raised, and how many
\* user_memberships rows it rewrote.
NoOp == [op |-> "none", ok |-> TRUE, err |-> "", arg |-> <<>>, rewrote |-> 0]

Done(op, arg) == [op |-> op, ok |-> TRUE, err |-> "", arg |-> arg, rewrote |-> 0]

Rewrote(op, arg, n) == [op |-> op, ok |-> TRUE, err |-> "", arg |-> arg, rewrote |-> n]

Raised(op, arg, err) == [op |-> op, ok |-> FALSE, err |-> err, arg |-> arg, rewrote |-> 0]

\* ------------------------------------------------- user_memberships insert
MaxClients == 10

CapacityError == "Trainer has reached maximum client capacity"

ActiveClients(t) ==
  CountRows(user_memberships,
            {r \in DOMAIN user_memberships : SqlEq(r.trainer_id, t) /\ r.status = "active"})

\* Mutant: the comparison is > where the trigger has >=.
check_trainer_availability_off_by_one(new) ==
  IF ActiveClients(new.trainer_id) > MaxClients THEN CapacityError ELSE ""

\* BEFORE INSERT ON user_memberships FOR EACH ROW: the error raised, "" for none.
check_trainer_availability(new) ==
  IF ActiveClients(new.trainer_id) >= MaxClients THEN CapacityError ELSE ""

\* NOT NULL and REFERENCES of user_memberships: the error raised, "" for none.
user_memberships_constraints(new) ==
  IF new.start_date = NULLNUM \/ new.end_date = NULLNUM \/ new.status = NULL
    THEN "null value violates not-null constraint"
  ELSE IF \/ new.user_id # NULL /\ new.user_id \notin DOMAIN users
          \/ new.membership_id # NULL /\ new.membership_id \notin DOMAIN memberships
          \/ new.trainer_id # NULL /\ new.trainer_id \notin trainers
    THEN "violates foreign key constraint"
  ELSE ""

\* INSERT INTO user_memberships VALUES (new): the trigger runs before the
\* row's constraints are checked.
insert_user_memberships(new) ==
  LET e1 == check_trainer_availability(new)
      e2 == user_memberships_constraints(new)
  IN IF e1 # "" THEN [err |-> e1, table |-> user_memberships]
     ELSE IF e2 # "" THEN [err |-> e2, table |-> user_memberships]
     ELSE [err |-> "", table |-> InsertRow(user_memberships, new)]

InsertUserMembership(new) ==
  LET r == insert_user_memberships(new)
  IN /\ user_memberships' = r.table
     /\ db' = IF r.err = "" THEN Done("insert_user_memberships", new)
              ELSE Raised("insert_user_memberships", new, r.err)
     /\ UNCHANGED <<users, profiles, trainers, payments, audit_logs, today>>
     /\ UNCHANGED <<uivars, readvars>>

\* ---------------------------------------------------------------- payments
payments_constraints(new) ==
  IF new.amount = NULLNUM \/ new.payment_date = NULLNUM \/ new.status = NULL
       \/ new.payment_method = NULL
    THEN "null value violates not-null constraint"
  ELSE IF \/ new.user_id # NULL /\ new.user_id \notin DOMAIN users
          \/ new.membership_id # NULL /\ new.membership_id \notin DOMAIN memberships
    THEN "violates foreign key constraint"
  ELSE ""

InsertPayment(new) ==
  LET e == payments_constraints(new)
  IN /\ payments' = IF e = "" THEN InsertRow(payments, new) ELSE payments
     /\ db' = IF e = "" THEN Done("insert_payments", new)
              ELSE Raised("insert_payments", new, e)
     /\ UNCHANGED <<users, profiles, trainers, user_memberships, audit_logs, today>>
     /\ UNCHANGED <<uivars, readvars>>

\* Mutant: the trigger does not test new.status.
update_membership_status_on_payment_any_status(new) ==
  UpdateRows(user_memberships,
    [r \in DOMAIN user_memberships |->
       IF SqlEq(r.user_id, new.user_id) /\ SqlEq(r.membership_id, new.membership_id)
         THEN [r EXCEPT !.status = "active"]
         ELSE r])

\* AFTER UPDATE ON payments FOR EACH ROW: user_memberships after the trigger.
update_membership_status_on_payment(new) ==
  IF new.status = "completed"
    THEN UpdateRows(user_memberships,
           [r \in DOMAIN user_memberships |->
              IF SqlEq(r.user_id, new.user_id) /\ SqlEq(r.membership_id, new.membership_id)
                THEN [r EXCEPT !.status = "active"]
                ELSE r])
    ELSE user_memberships

\* UPDATE payments SET status = s WHERE id = <the id of one row equal to old>
UpdatePayment(old, s) ==
  LET new == [old EXCEPT !.status = s]
  IN /\ old \in DOMAIN payments
     /\ payments' = InsertRow(DeleteRow(payments, old), new)
     /\ user_memberships' = update_membership_status_on_payment(new)
     /\ db' = Rewrote("update_payments", new,
                     IF new.status = "completed"
                       THEN CountRows(user_memberships,
                              {r \in DOMAIN user_memberships :
                                 SqlEq(r.user_id, new.user_id)
                                   /\ SqlEq(r.membership_id, new.membership_id)
                                   /\ r.status # "active"})
                       ELSE 0)
     /\ UNCHANGED <<users, profiles, trainers, audit_logs, today>>
     /\ UNCHANGED <<uivars, readvars>>

\* ------------------------------------------------------ stored procedures
\* CALL register_new_member(p_user_id, p_membership_id, p_trainer_id, p_start_date)
register_new_member(p_user_id, p_membership_id, p_trainer_id, p_start_date) ==
  LET found == p_membership_id \in DOMAIN memberships
      v_duration_months == IF found THEN memberships[p_membership_id].duration_months ELSE NULLNUM
      v_membership_price == IF found THEN memberships[p_membership_id].price ELSE NULLNUM
      v_end_date == IF v_duration_months = NULLNUM \/ p_start_date = NULLNUM THEN NULLNUM
                    ELSE AddMonths(p_start_date, v_duration_months)
      um == insert_user_memberships(
              [user_id |-> p_user_id, membership_id |-> p_membership_id,
               trainer_id |-> p_trainer_id, start_date |-> p_start_date,
               end_date |-> v_end_date, status |-> "active"])
      pay == [user_id |-> p_user_id, membership_id |-> p_membership_id,
              amount |-> v_membership_price, payment_date |-> today,
              status |-> "pending", payment_method |-> NULL]
      e2 == payments_constraints(pay)
  IN IF um.err # "" THEN [err |-> um.err, um |-> user_memberships, pay |-> payments]
     ELSE IF e2 # "" THEN [err |-> e2, um |-> user_memberships, pay |-> payments]
     ELSE [err |-> "", um |-> um.table, pay |-> InsertRow(payments, pay)]

RegisterNewMember(u, m, t, s) ==
  LET r == register_new_member(u, m, t, s)
      arg == [user_id |-> u, membership_id |-> m, trainer_id |-> t, start_date |-> s]
  IN /\ user_memberships' = r.um
     /\ payments' = r.pay
     /\ db' = IF r.err = "" THEN Done("register_new_member", arg)
              ELSE Raised("register_new_member", arg, r.err)
     /\ UNCHANGED <<users, profiles, trainers, audit_logs, today>>
     /\ UNCHANGED <<uivars, readvars>>

\* Mutant: rows ending on the current date expire too.
update_membership_status_on_or_before ==
  UpdateRows(user_memberships,
    [r \in DOMAIN user_memberships |->
       IF r.end_date <= today /\ r.status = "active"
         THEN [r EXCEPT !.status = "expired"]
         ELSE r])

\* CALL update_membership_status()
update_membership_status ==
  UpdateRows(user_memberships,
    [r \in DOMAIN user_memberships |->
       IF r.end_date < today /\ r.status = "active"
         THEN [r EXCEPT !.status = "expired"]
         ELSE r])

UpdateMembershipStatus ==
  /\ user_memberships' = update_membership_status
  /\ db' = Rewrote("update_membership_status", <<>>,
                  CountRows(user_memberships,
                    {r \in DOMAIN user_memberships :
                       r.end_date < today /\ r.status = "active"}))
  /\ UNCHANGED <<users, profiles, trainers, payments, audit_logs, today>>
  /\ UNCHANGED <<uivars, readvars>>

\* CURRENT_DATE moves on.
Tick ==
  /\ today < MaxToday
  /\ today' = today + 1
  /\ db' = NoOp
  /\ UNCHANGED <<users, profiles, trainers, user_memberships, payments, audit_logs>>
  /\ UNCHANGED <<uivars, readvars>>

\* ------------------------------------------------------------------ users
\* OLD of an INSERT and NEW of a DELETE (old, new below): the row whose every column is NULL.
NullRow == [id |-> NULL, role |-> NULL]

\* row_to_json: the object's keys and values in column order; SQL NULL of the null row.
row_to_json(r) == IF r = NullRow THEN <<NULL>> ELSE <<"id", r.id, "role", r.role>>

\* log_user_changes(): the audit_logs row the trigger inserts.
log_user_changes(TG_OP, old, new, uid) ==
  [table_name |-> "users",
   record_id |-> new.id,
   action |-> TG_OP,
   old_data |-> row_to_json(old),
   new_data |-> row_to_json(new),
   changed_by |-> uid]

AuthIds == {authUsers[e].id : e \in DOMAIN authUsers}

\* Rows of other tables that reference users(id).
ReferencesUser(id) ==
  \/ id \in DOMAIN profiles
  \/ id \in trainers
  \/ \E r \in DOMAIN user_memberships : r.user_id = id
  \/ \E r \in DOMAIN payments : r.user_id = id

\* INSERT INTO users (id, role), authIds being the ids of auth.users: the
\* error raised, "" for none.
users_insert_error(id, role, authIds) ==
  IF id = NULL THEN "null value violates not-null constraint"
  ELSE IF id \in DOMAIN users THEN "duplicate key value violates unique constraint"
  ELSE IF id \notin authIds THEN "violates foreign key constraint"
  ELSE ""

InsertUser(id, role) ==
  LET e == users_insert_error(id, role, AuthIds)
      new == [id |-> id, role |-> role]
  IN /\ Len(audit_logs) < MaxAudit
     /\ users' = IF e = "" THEN users @@ (id :> role) ELSE users
     /\ audit_logs' = IF e = "" THEN Append(audit_logs, log_user_changes("INSERT", NullRow, new, session))
                      ELSE audit_logs
     /\ db' = IF e = "" THEN Done("insert_users", new) ELSE Raised("insert_users", new, e)
     /\ UNCHANGED <<profiles, trainers, user_memberships, payments, today>>
     /\ UNCHANGED <<uivars, readvars>>

\* UPDATE users SET role = role WHERE id = id
UpdateUser(id, role) ==
  LET old == [id |-> id, role |-> users[id]]
      new == [id |-> id, role |-> role]
  IN /\ id \in DOMAIN users
     /\ Len(audit_logs) < MaxAudit
     /\ users' = [users EXCEPT ![id] = role]
     /\ audit_logs' = Append(audit_logs, log_user_changes("UPDATE", old, new, session))
     /\ db' = Done("update_users", new)
     /\ UNCHANGED <<profiles, trainers, user_memberships, payments, today>>
     /\ UNCHANGED <<uivars, readvars>>

\* DELETE FROM users WHERE id = id
DeleteUser(id) ==
  LET old == [id |-> id, role |-> users[id]]
      ok == ~ReferencesUser(id)
  IN /\ id \in DOMAIN users
     /\ Len(audit_logs) < MaxAudit
     /\ users' = IF ok THEN [x \in DOMAIN users \ {id} |-> users[x]] ELSE users
     /\ audit_logs' = IF ok THEN Append(audit_logs, log_user_changes("DELETE", old, NullRow, session))
                      ELSE audit_logs
     /\ db' = IF ok THEN Done("delete_users", old)
              ELSE Raised("delete_users", old, "violates foreign key constraint")
     /\ UNCHANGED <<profiles, trainers, user_memberships, payments, today>>
     /\ UNCHANGED <<uivars, readvars>>

\* ------------------------------------------------------- seeded database
\* Text is a sequence of characters.
AdminEmail == <<"a", "@", "f", ".", "i", "o">>
ClientEmail == <<"c", "@", "f", ".", "i", "o">>
TrainerEmail == <<"t", "@", "f", ".", "i", "o">>
NewEmail == <<"n", "@", "f", ".", "i", "o">>
Password8 == <<"p", "a", "s", "s", "w", "o", "r", "d">>

SeedUsers ==
  ("a1" :> "admin") @@ ("u1" :> "client") @@ ("u2" :> "client")
    @@ ("t1" :> "trainer") @@ ("t2" :> "trainer")

SeedProfiles ==
  ("a1" :> [full_name |-> <<"A", "d">>, email |-> AdminEmail])
    @@ ("u1" :> [full_name |-> <<"C", "l">>, email |-> ClientEmail])
    @@ ("t1" :> [full_name |-> <<"T", "r">>, email |-> TrainerEmail])

SeedAuth ==
  (AdminEmail :> [id |-> "a1", password |-> Password8])
    @@ (ClientEmail :> [id |-> "u1", password |-> Password8])
    @@ (TrainerEmail :> [id |-> "t1", password |-> Password8])
    @@ (<<"d", "@", "f", ".", "i", "o">> :> [id |-> "u2", password |-> Password8])
    @@ (<<"e", "@", "f", ".", "i", "o">> :> [id |-> "t2", password |-> Password8])
    @@ (NewEmail :> [id |-> "n1", password |-> Password8])

EmptyForm == [email |-> <<>>, password |-> <<>>]

EmptyRegForm ==
  [email |-> <<>>, password |-> <<>>, fullName |-> <<>>, height |-> <<>>,
   weight |-> <<>>, dateOfBirth |-> <<>>]

\* ui: the last handler run, the form it read, the SDK requests it sent, those
\* that returned an error, the dialogs it showed, the paths it navigated to,
\* and the user id and role it obtained.
Idle ==
  [handler |-> "none", form |-> <<>>, requests |-> <<>>, errors |-> {},
   dialogs |-> <<>>, navigated |-> <<>>, user |-> NULL, role |-> NULL]

\* result: the last SELECT of an authenticated caller: the relation read,
\* the caller, the ids of the profiles rows whose columns it returned and
\* the rows returned.
NoResult == [from |-> "none", uid |-> NULL, profiles |-> {}, rows |-> EmptyBag]

\* screen: what the dashboard last rendered.
NoScreen == [page |-> "none"]

\* txns: the INSERT statements in flight, by connection.
Connections == {"x1", "x2"}

NoTxns == [x \in Connections |-> [pc |-> "idle"]]

\* The schema with its reference rows in place, uid signed in (NULL: nobody).
InitSession(uid) ==
  /\ users = SeedUsers
  /\ profiles = SeedProfiles
  /\ trainers = {"t1", "t2"}
  /\ user_memberships = EmptyBag
  /\ payments = EmptyBag
  /\ audit_logs = <<>>
  /\ today = Day0
  /\ db = NoOp
  /\ authUsers = SeedAuth
  /\ session = uid
  /\ formData = EmptyForm
  /\ regFormData = EmptyRegForm
  /\ ui = Idle
  /\ result = NoResult
  /\ screen = NoScreen
  /\ txns = NoTxns

InitDb == InitSession(NULL)

\* --------------------------------------------- trainer capacity: SpecCap
CapRows ==
  {[user_id |-> "u1", membership_id |-> "m1", trainer_id |-> t,
    start_date |-> Day0 - 31, end_date |-> Day0 - 1, status |-> st] :
     t \in {"t1", "t2"}, st \in {"active", "expired"}}

CapPayment ==
  [user_id |-> "u1", membership_id |-> "m1", amount |-> memberships["m1"].price,
   payment_date |-> Day0, status |-> "pending", payment_method |-> "card"]

NextCap ==
  \/ \E new \in CapRows :
       BagCardinality(user_memberships) < MaxTrainerRows /\ InsertUserMembership(new)
  \/ BagCardinality(user_memberships) < MaxTrainerRows
       /\ RegisterNewMember("u1", "m1", "t1", Day0)
  \/ UpdateMembershipStatus
  \/ BagCardinality(payments) < MaxPayments /\ InsertPayment(CapPayment)
  \/ \E old \in DOMAIN payments, s \in payment_status : UpdatePayment(old, s)

SpecCap == InitDb /\ [][NextCap]_vars

\* ------------------------------------- expiry, payments, register: SpecDb
DbRows ==
  {[user_id |-> u, membership_id |-> "m1", trainer_id |-> "t1",
    start_date |-> Day0 - 31, end_date |-> e, status |-> st] :
     u \in {"u1", "u2"}, e \in {Day0, Day0 + 1}, st \in membership_status}

DbPayments ==
  {[user_id |-> "u1", membership_id |-> m, amount |-> memberships[m].price,
    payment_date |-> Day0, status |-> "pending", payment_method |-> pm] :
     m \in MembershipIds, pm \in {"card", NULL}}

NextDb ==
  \/ \E new \in DbRows :
       BagCardinality(user_memberships) < MaxMemberships /\ InsertUserMembership(new)
  \/ \E m \in {"m1", "m9"}, s \in {0, 30} :
       BagCardinality(user_memberships) < MaxMemberships
         /\ RegisterNewMember("u2", m, "t1", s)
  \/ UpdateMembershipStatus
  \/ \E new \in DbPayments :
       BagCardinality(payments) < MaxPayments /\ InsertPayment(new)
  \/ \E old \in DOMAIN payments, s \in payment_status : UpdatePayment(old, s)
  \/ Tick

SpecDb == InitDb /\ [][NextDb]_vars

\* ----------------------------------------------- users audit: SpecUsers
NextUsers ==
  \/ \E id \in {"n1", "u2", NULL}, role \in user_role : InsertUser(id, role)
  \/ \E id \in {"n1", "u2", "u1"}, role \in user_role : UpdateUser(id, role)
  \/ \E id \in {"n1", "u2", "u1"} : DeleteUser(id)

SpecUsers == InitDb /\ [][NextUsers]_vars

\* ------------------------------------------------------ lib/schemas (zod)
Letters == {"a", "b", "c", "d", "e", "f", "i", "n", "o", "p", "r", "s", "t", "w", "x"}
Digits == {"0", "1", "2", "3", "4", "5", "6", "7", "8", "9"}

Positions(s, c) == {i \in 1..Len(s) : s[i] = c}

\* z.string().email(): one "@", a local part, and a dotted domain whose
\* labels are not empty and whose last label has two letters or more.
IsEmail(s) ==
  /\ Cardinality(Positions(s, "@")) = 1
  /\ LET at == CHOOSE i \in Positions(s, "@") : TRUE
         dots == {i \in Positions(s, ".") : i > at}
     IN /\ at > 1
        /\ \A i \in 1..(at - 1) : s[i] \in Letters \cup Digits
        /\ dots # {}
        /\ \A i \in (at + 1)..Len(s) : s[i] \in Letters \cup Digits \cup {"."}
        /\ \A i \in dots : i > at + 1 /\ i < Len(s) /\ (i + 1) \notin dots
        /\ \A d \in dots : (\A e \in dots : e <= d) =>
             (Len(s) - d >= 2 /\ \A i \in (d + 1)..Len(s) : s[i] \in Letters)

MinPassword == 8

\* Mutant: the e-mail is not validated.
loginSchema_password_only(data) == Len(data.password) >= MinPassword

\* loginSchema.parse(formData) does not throw.
loginSchema(data) == IsEmail(data.email) /\ Len(data.password) >= MinPassword

\* ------------------------------------------------------------- LoginPage
ErrorDialog(title) == [icon |-> "error", title |-> title]

\* Mutant: every role but client is sent to the admin dashboard.
LoginRoute_not_client(role) == IF role # "client" THEN "/admin" ELSE "/dashboard"

\* if (userData?.role === 'admin') navigate('/admin') else navigate('/dashboard')
LoginRoute(role) == IF role = "admin" THEN "/admin" ELSE "/dashboard"

\* What follows a handler: the user closes the modal dialog it opened, and a
\* page that was navigated away from is unmounted, its form state discarded.
\* The inputs and buttons of a page are out of reach until then.
Dismiss ==
  /\ ui # Idle
  /\ ui' = Idle
  /\ formData' = IF ui.navigated # <<>> THEN EmptyForm ELSE formData
  /\ regFormData' = IF ui.navigated # <<>> THEN EmptyRegForm ELSE regFormData
  /\ UNCHANGED <<authUsers, session>>
  /\ UNCHANGED <<dbvars, readvars>>

\* onChange of the e-mail and password inputs
LoginPage_onChange(field, value) ==
  /\ ui = Idle
  /\ formData' = [formData EXCEPT ![field] = value]
  /\ UNCHANGED <<authUsers, session, ui, regFormData>>
  /\ UNCHANGED <<dbvars, readvars>>

\* handleSubmit.  service: whether the authentication service answers the
\* sign-in; readable: whether the query on users returns the user's row (the
\* policies of users are not part of the migration, and a query may fail).
LoginPage_handleSubmit(service, readable) ==
  LET valid == loginSchema(formData)
      signedIn == /\ valid
                  /\ service = "ok"
                  /\ formData.email \in DOMAIN authUsers
                  /\ authUsers[formData.email].password = formData.password
      id == IF signedIn THEN authUsers[formData.email].id ELSE NULL
      row == signedIn /\ readable /\ id \in DOMAIN users
      role == IF row THEN users[id] ELSE NULL
  IN /\ ui = Idle
     /\ session' = IF signedIn THEN id ELSE session
     /\ ui' = [handler |-> "LoginPage.handleSubmit",
               form |-> formData,
               requests |-> IF ~valid THEN <<>>
                            ELSE IF ~signedIn THEN <<"auth.signInWithPassword">>
                            ELSE <<"auth.signInWithPassword", "users.select">>,
               errors |-> IF valid /\ ~signedIn THEN {"auth.signInWithPassword"}
                          ELSE IF signedIn /\ ~row THEN {"users.select"}
                          ELSE {},
               dialogs |-> IF signedIn THEN <<>> ELSE <<ErrorDialog("Login Failed")>>,
               navigated |-> IF signedIn THEN <<LoginRoute(role)>> ELSE <<>>,
               user |-> id,
               role |-> role]
     /\ UNCHANGED <<authUsers, formData, regFormData>>
     /\ UNCHANGED <<dbvars, readvars>>

\* ---------------------------------------------------------------- Navbar
\* handleLogout; the dashboards that render Navbar are shown to a signed-in
\* user.  signOut resolves to {error} ("ok", "error") or rejects
\* ("throws"); only a rejection reaches the catch block.
Navbar_handleLogout(outcome) ==
  /\ ui = Idle
  /\ session # NULL
  /\ session' = IF outcome = "ok" THEN NULL ELSE session
  /\ ui' = [handler |-> "Navbar.handleLogout",
            form |-> <<>>,
            requests |-> <<"auth.signOut">>,
            errors |-> IF outcome = "ok" THEN {} ELSE {"auth.signOut"},
            dialogs |-> IF outcome = "throws" THEN <<ErrorDialog("Error")>> ELSE <<>>,
            navigated |-> IF outcome = "throws" THEN <<>> ELSE <<"/login">>,
            user |-> NULL,
            role |-> NULL]
  /\ UNCHANGED <<authUsers, formData, regFormData>>
  /\ UNCHANGED <<dbvars, readvars>>

\* --------------------------------------------------- sign-in: SpecLogin
LoginEmails ==
  {<<>>, <<"a", "b">>, <<"a", "@", "f">>, <<"a", "@", "f", ".", "i">>,
   AdminEmail, ClientEmail, TrainerEmail, NewEmail, <<"x", "@", "f", ".", "i", "o">>}

LoginPasswords ==
  {<<>>, <<"p", "a", "s", "s", "w", "o", "r">>, Password8,
   <<"p", "a", "s", "s", "w", "o", "r", "x">>}

NextLogin ==
  \/ \E v \in LoginEmails : LoginPage_onChange("email", v)
  \/ \E v \in LoginPasswords : LoginPage_onChange("password", v)
  \/ \E service \in {"ok", "error"}, readable \in BOOLEAN :
       LoginPage_handleSubmit(service, readable)
  \/ \E outcome \in {"ok", "error", "throws"} : Navbar_handleLogout(outcome)
  \/ Dismiss

SpecLogin == InitDb /\ [][NextLogin]_vars

\* ----------------------------------------------------------- RegisterPage
DigitValue ==
  ("0" :> 0) @@ ("1" :> 1) @@ ("2" :> 2) @@ ("3" :> 3) @@ ("4" :> 4)
    @@ ("5" :> 5) @@ ("6" :> 6) @@ ("7" :> 7) @@ ("8" :> 8) @@ ("9" :> 9)

RECURSIVE DecimalValue(_)
DecimalValue(s) ==
  IF s = <<>> THEN 0
  ELSE 10 * DecimalValue(SubSeq(s, 1, Len(s) - 1)) + DigitValue[s[Len(s)]]

\* parseFloat on a text without fraction or exponent: the longest prefix that
\* is a signed run of digits, NaN when there is none.
parseFloat(s) ==
  LET neg == Len(s) > 0 /\ s[1] = "-"
      body == IF neg THEN Tail(s) ELSE s
      n == CHOOSE k \in 0..Len(body) :
             /\ \A i \in 1..k : body[i] \in Digits
             /\ k = Len(body) \/ body[k + 1] \notin Digits
  IN IF n = 0 THEN [nan |-> TRUE, value |-> 0]
     ELSE [nan |-> FALSE,
           value |-> (IF neg THEN 0 - 1 ELSE 1) * DecimalValue(SubSeq(body, 1, n))]

\* new Date(text) is a valid date: text is yyyy-mm-dd.
IsDateText(s) ==
  /\ Len(s) = 10
  /\ \A i \in 1..10 : IF i \in {5, 8} THEN s[i] = "-" ELSE s[i] \in Digits

\* Mutant: nonnegative() where the schema has positive().
OptionalPositive_or_zero(text) ==
  text = <<>> \/ (~parseFloat(text).nan /\ parseFloat(text).value >= 0)

\* z.number().positive().optional() of (text ? parseFloat(text) : undefined)
OptionalPositive(text) ==
  text = <<>> \/ (~parseFloat(text).nan /\ parseFloat(text).value > 0)

MinFullName == 2

\* registrationSchema.parse({...formData, height, weight, dateOfBirth}) does
\* not throw.  phone, emergencyContact and medicalConditions are optional
\* strings and always pass.
registrationSchema(data) ==
  /\ IsEmail(data.email)
  /\ Len(data.password) >= MinPassword
  /\ Len(data.fullName) >= MinFullName
  /\ OptionalPositive(data.height)
  /\ OptionalPositive(data.weight)
  /\ data.dateOfBirth = <<>> \/ IsDateText(data.dateOfBirth)

\* "Admins have full access to profiles": the only policy of profiles that
\* covers INSERT.  readable: whether the caller's own row of users is visible
\* to the policy's subquery (the policies of users are not in the migration).
profiles_insert_policy(uid, usersTable, readable) ==
  readable /\ uid \in DOMAIN usersTable /\ usersTable[uid] = "admin"

\* Mutant: profiles.id does not reference users(id).
profiles_insert_error_no_fk(row, uid, usersTable, readable) ==
  IF row.id = NULL \/ row.full_name = NULL \/ row.email = NULL
    THEN "null value violates not-null constraint"
  ELSE IF ~profiles_insert_policy(uid, usersTable, readable)
    THEN "new row violates row-level security policy"
  ELSE IF row.id \in DOMAIN profiles \/ \E p \in DOMAIN profiles : profiles[p].email = row.email
    THEN "duplicate key value violates unique constraint"
  ELSE ""

\* INSERT INTO profiles by uid, usersTable being users at that time: the
\* error raised, "" for none.
profiles_insert_error(row, uid, usersTable, readable) ==
  IF row.id = NULL \/ row.full_name = NULL \/ row.email = NULL
    THEN "null value violates not-null constraint"
  ELSE IF ~profiles_insert_policy(uid, usersTable, readable)
    THEN "new row violates row-level security policy"
  ELSE IF row.id \in DOMAIN profiles \/ \E p \in DOMAIN profiles : profiles[p].email = row.email
    THEN "duplicate key value violates unique constraint"
  ELSE IF row.id \notin DOMAIN usersTable
    THEN "violates foreign key constraint"
  ELSE ""

FreshIds == {"n2", "n3"}

SuccessDialog(title) == [icon |-> "success", title |-> title]

RegisterPage_onChange(field, value) ==
  /\ ui = Idle
  /\ regFormData' = [regFormData EXCEPT ![field] = value]
  /\ UNCHANGED <<authUsers, session, ui, formData>>
  /\ UNCHANGED <<dbvars, readvars>>

\* handleSubmit.  signUp: "created" or "error", the answer of the
\* authentication service to a new e-mail; newSession: whether signUp signs
\* the new user in (no e-mail confirmation); usersAllowed: whether the
\* policies of users let the caller insert; readable: as in
\* profiles_insert_policy; profileService: whether the profiles request
\* reaches the database.
RegisterPage_handleSubmit(signUp, newSession, usersAllowed, readable, profileService) ==
  LET data == regFormData
      valid == registrationSchema(data)
      created == /\ valid
                 /\ signUp = "created"
                 /\ data.email \notin DOMAIN authUsers
                 /\ FreshIds \ AuthIds # {}
      id == IF created THEN CHOOSE x \in FreshIds \ AuthIds : TRUE ELSE NULL
      uid == IF created /\ newSession THEN id ELSE session
      userRegister == IF ~usersAllowed THEN "new row violates row-level security policy"
                      ELSE users_insert_error(id, "client", AuthIds \cup {id})
      usersAfter == IF created /\ userRegister = "" THEN users @@ (id :> "client") ELSE users
      row == [id |-> id, full_name |-> data.fullName, email |-> data.email]
      profileError == IF profileService = "error" THEN "request failed"
                      ELSE profiles_insert_error(row, uid, usersAfter, readable)
      success == created /\ profileError = ""
  IN /\ ui = Idle
     /\ authUsers' = IF created
                       THEN authUsers @@ (data.email :> [id |-> id, password |-> data.password])
                       ELSE authUsers
     /\ session' = uid
     /\ users' = usersAfter
     /\ audit_logs' = IF created /\ userRegister = ""
                        THEN Append(audit_logs,
                               log_user_changes("INSERT", NullRow,
                                                [id |-> id, role |-> "client"], uid))
                        ELSE audit_logs
     /\ profiles' = IF success
                      THEN profiles @@ (id :> [full_name |-> row.full_name, email |-> row.email])
                      ELSE profiles
     /\ db' = NoOp
     /\ ui' = [handler |-> "RegisterPage.handleSubmit",
               form |-> data,
               requests |-> IF ~valid THEN <<>>
                            ELSE IF ~created THEN <<"auth.signUp">>
                            ELSE <<"auth.signUp", "users.insert", "profiles.insert">>,
               errors |-> IF ~valid THEN {}
                          ELSE IF ~created THEN {"auth.signUp"}
                          ELSE (IF userRegister # "" THEN {"users.insert"} ELSE {})
                                 \cup (IF profileError # "" THEN {"profiles.insert"} ELSE {}),
               dialogs |-> IF success THEN <<SuccessDialog("Registration Successful")>>
                           ELSE <<ErrorDialog("Registration Failed")>>,
               navigated |-> IF success THEN <<"/login">> ELSE <<>>,
               user |-> id,
               role |-> NULL]
     /\ UNCHANGED <<trainers, user_memberships, payments, today, formData, regFormData>>
     /\ UNCHANGED readvars

\* ------------------------------------------------ registration: SpecReg
RegEmails == {<<"a", "b">>, ClientEmail, <<"r", "@", "f", ".", "i", "o">>}

RegPasswords == {<<"p", "a", "s", "s", "w", "o", "r">>, Password8}

RegNames == {<<"R">>, <<"R", "o">>}

RegNumbers == {<<>>, <<"7", "0">>, <<"-", "5">>}

RegDates == {<<>>, <<"2", "0", "0", "0", "-", "0", "1", "-", "3", "1">>}

InitReg == \E uid \in {NULL, "a1", "u1"} : InitSession(uid)

NextReg ==
  \/ \E v \in RegEmails : RegisterPage_onChange("email", v)
  \/ \E v \in RegPasswords : RegisterPage_onChange("password", v)
  \/ \E v \in RegNames : RegisterPage_onChange("fullName", v)
  \/ \E v \in RegNumbers : RegisterPage_onChange("height", v)
  \/ \E v \in {<<>>, <<"0">>} : RegisterPage_onChange("weight", v)
  \/ \E v \in RegDates : RegisterPage_onChange("dateOfBirth", v)
  \/ \E signUp \in {"created", "error"}, newSession, usersAllowed, readable \in BOOLEAN,
        profileService \in {"ok", "error"} :
       RegisterPage_handleSubmit(signUp, newSession, usersAllowed, readable, profileService)
  \/ Dismiss

SpecReg == InitReg /\ [][NextReg]_vars

\* ------------------------------------------------------------------ views
\* The rows of table B that are in the domain of f, each r returned as f[r].
BagMap(B, f) ==
  LET img == {f[r] : r \in DOMAIN f}
  IN [x \in img |-> SumCounts(B, {r \in DOMAIN f : f[r] = x})]

\* FROM user_memberships um JOIN profiles p ON um.user_id = p.id
\*                          JOIN memberships m ON um.membership_id = m.id
JoinProfilePlan ==
  {r \in DOMAIN user_memberships :
     r.user_id \in DOMAIN profiles /\ r.membership_id \in DOMAIN memberships}

\* LEFT JOIN profiles t ON um.trainer_id = t.id: t.full_name
LeftJoinName(id) == IF id \in DOMAIN profiles THEN profiles[id].full_name ELSE NULLTEXT

active_memberships_columns ==
  {"id", "user_name", "membership_name", "start_date", "end_date", "trainer_name"}

active_memberships_from == {r \in JoinProfilePlan : r.status = "active"}

active_memberships_row(r) ==
  [user_name |-> profiles[r.user_id].full_name,
   membership_name |-> memberships[r.membership_id].name,
   start_date |-> r.start_date,
   end_date |-> r.end_date,
   trainer_name |-> LeftJoinName(r.trainer_id)]

\* CREATE VIEW active_memberships (its id column, a generated UUID, left out)
active_memberships ==
  BagMap(user_memberships, [r \in active_memberships_from |-> active_memberships_row(r)])

trainer_clients_from ==
  {r \in JoinProfilePlan :
     r.trainer_id \in trainers /\ r.trainer_id \in DOMAIN profiles /\ r.status = "active"}

trainer_clients_row(r) ==
  [trainer_id |-> r.trainer_id,
   trainer_name |-> profiles[r.trainer_id].full_name,
   client_name |-> profiles[r.user_id].full_name,
   membership_plan |-> memberships[r.membership_id].name,
   start_date |-> r.start_date,
   end_date |-> r.end_date]

\* CREATE VIEW trainer_clients
trainer_clients == BagMap(user_memberships, [r \in trainer_clients_from |-> trainer_clients_row(r)])

upcoming_renewals_columns ==
  {"full_name", "email", "membership_plan", "end_date", "renewal_amount"}

RenewalDays == 30

\* Mutant: the window ends before CURRENT_DATE + 30 days.
upcoming_renewals_from_exclusive ==
  {r \in JoinProfilePlan :
     /\ today <= r.end_date /\ r.end_date < today + RenewalDays
     /\ r.status = "active"}

\* WHERE um.end_date BETWEEN CURRENT_DATE AND (CURRENT_DATE + INTERVAL '30 days')
\* AND um.status = 'active'
upcoming_renewals_from ==
  {r \in JoinProfilePlan :
     /\ today <= r.end_date /\ r.end_date <= today + RenewalDays
     /\ r.status = "active"}

upcoming_renewals_row(r) ==
  [full_name |-> profiles[r.user_id].full_name,
   email |-> profiles[r.user_id].email,
   membership_plan |-> memberships[r.membership_id].name,
   end_date |-> r.end_date,
   renewal_amount |-> memberships[r.membership_id].price]

\* CREATE VIEW upcoming_renewals
upcoming_renewals ==
  BagMap(user_memberships, [r \in upcoming_renewals_from |-> upcoming_renewals_row(r)])

Views == {"active_memberships", "trainer_clients", "upcoming_renewals"}

ViewRows(v) ==
  CASE v = "active_memberships" -> active_memberships
    [] v = "trainer_clients" -> trainer_clients
    [] v = "upcoming_renewals" -> upcoming_renewals

\* The profiles rows whose columns the view returns.
ViewProfiles(v) ==
  CASE v = "active_memberships" ->
         {r.user_id : r \in active_memberships_from}
           \cup ({r.trainer_id : r \in active_memberships_from} \cap DOMAIN profiles)
    [] v = "trainer_clients" ->
         {r.user_id : r \in trainer_clients_from}
           \cup {r.trainer_id : r \in trainer_clients_from}
    [] v = "upcoming_renewals" -> {r.user_id : r \in upcoming_renewals_from}

\* ---------------------------------------------- row-level security: SpecRls
\* "Users can view their own profile"
Users_can_view_their_own_profile(uid, id) == uid = id

\* "Trainers can view assigned clients".  visible: whether the policies of
\* user_memberships (not in the migration) show the caller the rows the
\* subquery looks for.
Trainers_can_view_assigned_clients(uid, id, visible) ==
  /\ visible
  /\ \E r \in DOMAIN user_memberships : SqlEq(r.trainer_id, uid) /\ SqlEq(r.user_id, id)

\* The permissive policies of profiles that cover SELECT, ORed.  "Admins have
\* full access to profiles" is FOR ALL: profiles_insert_policy is its USING
\* expression.
profiles_select_policy(uid, id, readable, visible) ==
  \/ Users_can_view_their_own_profile(uid, id)
  \/ profiles_insert_policy(uid, users, readable)
  \/ Trainers_can_view_assigned_clients(uid, id, visible)

\* SELECT * FROM profiles as the authenticated user uid.
SelectProfiles(uid, readable, visible) ==
  LET ids == {id \in DOMAIN profiles : profiles_select_policy(uid, id, readable, visible)}
  IN /\ result' = [from |-> "profiles", uid |-> uid, profiles |-> ids,
                   rows |-> SetToBag({[id |-> id, full_name |-> profiles[id].full_name,
                                       email |-> profiles[id].email] : id \in ids})]
     /\ db' = Done("select", [from |-> "profiles", uid |-> uid])
     /\ UNCHANGED <<users, profiles, trainers, user_memberships, payments, audit_logs, today>>
     /\ UNCHANGED <<uivars, screen, txns>>

\* SELECT * FROM v as the authenticated user uid.  The views are created
\* without security_invoker: their query reads profiles and user_memberships
\* as the owner of the view, the role that ran the migration and owns the
\* tables, and row-level security (enabled, not forced) does not apply to it.
SelectView(uid, v) ==
  /\ result' = [from |-> v, uid |-> uid, profiles |-> ViewProfiles(v), rows |-> ViewRows(v)]
  /\ db' = Done("select", [from |-> v, uid |-> uid])
  /\ UNCHANGED <<users, profiles, trainers, user_memberships, payments, audit_logs, today>>
  /\ UNCHANGED <<uivars, screen, txns>>

RlsRows ==
  {[user_id |-> u, membership_id |-> "m1", trainer_id |-> t,
    start_date |-> Day0 - 10, end_date |-> Day0 + 20, status |-> st] :
     u \in {"u1", "u2"}, t \in {"t1", NULL}, st \in {"active", "expired"}}

NextRls ==
  \/ \E new \in RlsRows :
       BagCardinality(user_memberships) < MaxMemberships /\ InsertUserMembership(new)
  \/ \E uid \in DOMAIN users, readable, visible \in BOOLEAN :
       SelectProfiles(uid, readable, visible)
  \/ \E uid \in DOMAIN users, v \in Views : SelectView(uid, v)

SpecRls == InitDb /\ [][NextRls]_vars

\* ------------------------------------------- client dashboard: SpecClient
\* supabase.from(relation).select(select).eq(column, value).single(): the
\* request fails when it names a column the relation does not have, and
\* single() fails unless exactly one row matches.  data: no row or one row.
SelectSingle(columns, rows, select, column, value) ==
  IF ~(select \subseteq columns) \/ column \notin columns
    THEN [error |-> "column does not exist", data |-> <<>>]
  ELSE LET match == {r \in DOMAIN rows : r[column] = value}
       IN IF CountRows(rows, match) # 1
            THEN [error |-> "JSON object requested, multiple (or no) rows returned",
                  data |-> <<>>]
          ELSE LET r == CHOOSE x \in match : TRUE
               IN [error |-> "", data |-> <<[c \in select |-> r[c]]>>]

NoActiveMembership == <<"No active membership">>

NoTrainerAssigned == <<"No trainer assigned">>

\* membership?.name || 'No active membership'
MembershipCard(membership) ==
  IF membership = <<>> \/ membership[1].name \in {NULLTEXT, <<>>}
    THEN NoActiveMembership ELSE membership[1].name

\* membership?.trainer_name || 'No trainer assigned'
TrainerCard(membership) ==
  IF membership = <<>> \/ membership[1].trainer_name \in {NULLTEXT, <<>>}
    THEN NoTrainerAssigned ELSE membership[1].trainer_name

\* {membership && Expires: formatDate(new Date(membership.end_date))}: the
\* date shown, NULLNUM when the line is not rendered.
ExpiresLine(membership) == IF membership = <<>> THEN NULLNUM ELSE membership[1].end_date

\* fetchUserData and the render that follows it.  service: whether the
\* requests reach the backend; when they do not, getUser yields no user and
\* the function returns.  user_workouts has no rows: nothing inserts into it.
ClientDashboard_fetchUserData(service) ==
  LET user == IF service = "error" THEN NULL ELSE session
      membershipData ==
        IF user = NULL THEN [error |-> "", data |-> <<>>]
        ELSE SelectSingle(active_memberships_columns, active_memberships,
                          {"name", "end_date", "trainer_name"}, "user_id", user)
      membership == membershipData.data
  IN /\ screen' = [page |-> "ClientDashboard",
                   membership |-> MembershipCard(membership),
                   expires |-> ExpiresLine(membership),
                   trainer |-> TrainerCard(membership),
                   workouts |-> 0]
     /\ ui' = [handler |-> "ClientDashboard.fetchUserData",
               form |-> <<>>,
               requests |-> IF user = NULL THEN <<"auth.getUser">>
                            ELSE <<"auth.getUser", "profiles.select",
                                   "active_memberships.select", "user_workouts.select">>,
               errors |-> IF service = "error" THEN {"auth.getUser"}
                          ELSE IF membershipData.error # ""
                            THEN {"active_memberships.select"} ELSE {},
               dialogs |-> <<>>,
               navigated |-> <<>>,
               user |-> user,
               role |-> NULL]
     /\ db' = IF user = NULL THEN db
              ELSE Done("select", [from |-> "user_workouts", uid |-> user])
     /\ UNCHANGED <<authUsers, session, formData, regFormData, result, txns>>
     /\ UNCHANGED <<users, profiles, trainers, user_memberships, payments, audit_logs, today>>

ClientRows ==
  {[user_id |-> u, membership_id |-> "m1", trainer_id |-> t,
    start_date |-> Day0 - 10, end_date |-> Day0 + 20, status |-> st] :
     u \in {"u1", "u2"}, t \in {"t1", NULL}, st \in {"active", "expired"}}

InitClient == \E uid \in {"u1", "u2"} : InitSession(uid)

NextClient ==
  \/ \E new \in ClientRows :
       BagCardinality(user_memberships) < MaxMemberships /\ InsertUserMembership(new)
  \/ \E service \in {"ok", "error"} : ClientDashboard_fetchUserData(service)

SpecClient == InitClient /\ [][NextClient]_vars

\* ------------------------------------------------ renewals: SpecRenewals
RenewalRows ==
  {[user_id |-> u, membership_id |-> m, trainer_id |-> NULL,
    start_date |-> Day0 - 31, end_date |-> e, status |-> st] :
     u \in {"u1", "u2"}, m \in {"m1", NULL},
     e \in {Day0 - 1, Day0, Day0 + RenewalDays, Day0 + RenewalDays + 1},
     st \in membership_status}

NextRenewals ==
  \/ \E new \in RenewalRows :
       BagCardinality(user_memberships) < MaxMemberships /\ InsertUserMembership(new)
  \/ Tick
  \/ SelectView("a1", "upcoming_renewals")

SpecRenewals == InitDb /\ [][NextRenewals]_vars

\* --------------------------------------------- admin dashboard: SpecAdmin
RECURSIVE SumAmounts(_, _)
\* rows.reduce((sum, payment) => sum + payment.amount, 0) over the rows S of B
SumAmounts(B, S) ==
  IF S = {} THEN 0
  ELSE LET r == CHOOSE x \in S : TRUE IN r.amount * B[r] + SumAmounts(B, S \ {r})

\* Mutant: the revenue query has no .eq('status', 'completed').
RevenueRows_any_status == DOMAIN payments

\* from('payments').select('amount').eq('status', 'completed')
RevenueRows == {r \in DOMAIN payments : r.status = "completed"}

\* fetchDashboardData and the render that follows it, on the adminOnly
\* route.  service: whether the requests reach the backend (the SDK returns
\* the failure as error, with data null); readable: as in
\* profiles_insert_policy, here for the policies of payments, of which the
\* migration says only that they are similar to those of profiles.
\* membersCount, activeMemberships and renewals are the data arrays, which
\* have no count property: the three counts are always 0.
AdminDashboard_fetchDashboardData(service, readable) ==
  LET granted == profiles_insert_policy(session, users, readable)
      revenue == IF service = "error" THEN <<>>
                 ELSE IF granted THEN <<SumAmounts(payments, RevenueRows)>>
                 ELSE <<0>>
      failed == (IF "id" \in upcoming_renewals_columns
                   THEN {} ELSE {"upcoming_renewals.select"})
                  \cup (IF "user_id" \in active_memberships_columns
                          THEN {} ELSE {"active_memberships.select"})
  IN /\ session \in DOMAIN users
     /\ users[session] = "admin"
     /\ screen' = [page |-> "AdminDashboard",
                   totalMembers |-> 0,
                   activeMembers |-> 0,
                   totalRevenue |-> IF revenue = <<>> THEN 0 ELSE revenue[1],
                   upcomingRenewals |-> 0,
                   members |-> <<>>]
     /\ ui' = [handler |-> "AdminDashboard.fetchDashboardData",
               form |-> <<>>,
               requests |-> <<"profiles.select", "user_memberships.select",
                              "payments.select", "upcoming_renewals.select",
                              "active_memberships.select">>,
               errors |-> IF service = "error"
                            THEN {"profiles.select", "user_memberships.select",
                                  "payments.select", "upcoming_renewals.select",
                                  "active_memberships.select"}
                            ELSE failed,
               dialogs |-> <<>>,
               navigated |-> <<>>,
               user |-> session,
               role |-> IF granted THEN "admin" ELSE NULL]
     /\ db' = IF service = "error" THEN db
              ELSE Done("select", [from |-> "active_memberships", uid |-> session])
     /\ UNCHANGED <<authUsers, session, formData, regFormData, result, txns>>
     /\ UNCHANGED <<users, profiles, trainers, user_memberships, payments, audit_logs, today>>

AdminPayments ==
  {[user_id |-> "u1", membership_id |-> m, amount |-> memberships[m].price,
    payment_date |-> Day0, status |-> st, payment_method |-> "card"] :
     m \in MembershipIds, st \in payment_status}

InitAdmin == InitSession("a1")

NextAdmin ==
  \/ \E new \in AdminPayments :
       BagCardinality(payments) < MaxAdminPayments /\ InsertPayment(new)
  \/ \E old \in DOMAIN payments, st \in payment_status : UpdatePayment(old, st)
  \/ \E service \in {"ok", "error"}, readable \in BOOLEAN :
       AdminDashboard_fetchDashboardData(service, readable)

SpecAdmin == InitAdmin /\ [][NextAdmin]_vars

\* ------------------------------------------- concurrent inserts: SpecTxn
\* INSERT INTO user_memberships on connection x, first half: the BEFORE
\* INSERT trigger counts the active rows of new.trainer_id among the rows
\* committed so far.  The function takes no lock and the count reads no row
\* another connection has yet to commit.
TxnCount(x, new) ==
  LET e == check_trainer_availability(new)
  IN /\ txns[x].pc = "idle"
     /\ txns' = IF e = "" THEN [txns EXCEPT ![x] = [pc |-> "counted", new |-> new]]
                ELSE txns
     /\ db' = IF e = "" THEN db ELSE Raised("insert_user_memberships", new, e)
     /\ UNCHANGED <<users, profiles, trainers, user_memberships, payments, audit_logs, today>>
     /\ UNCHANGED <<uivars, result, screen>>

\* Second half: the row passes the constraints, is inserted and committed.
TxnInsert(x) ==
  /\ txns[x].pc = "counted"
  /\ LET new == txns[x].new
         e == user_memberships_constraints(new)
     IN /\ user_memberships' = IF e = "" THEN InsertRow(user_memberships, new)
                               ELSE user_memberships
        /\ db' = IF e = "" THEN Done("insert_user_memberships", new)
                 ELSE Raised("insert_user_memberships", new, e)
  /\ txns' = [txns EXCEPT ![x] = [pc |-> "idle"]]
  /\ UNCHANGED <<users, profiles, trainers, payments, audit_logs, today>>
  /\ UNCHANGED <<uivars, result, screen>>

InFlight == {x \in Connections : txns[x].pc = "counted"}

TxnRows ==
  {[user_id |-> "u1", membership_id |-> "m1", trainer_id |-> "t1",
    start_date |-> Day0, end_date |-> Day0 + 31, status |-> st] :
     st \in {"active", "expired"}}

NextTxn ==
  \/ \E x \in Connections, new \in TxnRows :
       /\ BagCardinality(user_memberships) + Cardinality(InFlight) < MaxTrainerRows
       /\ TxnCount(x, new)
  \/ \E x \in Connections : TxnInsert(x)

SpecTxn == InitDb /\ [][NextTxn]_vars

\* ================================================================ claims

\* C1: an insert into user_memberships whose trainer_id already has 10 or
\* more active rows is rejected with 'Trainer has reached maximum client
\* capacity' and leaves the table unchanged; with fewer than 10 active rows
\* the capacity check does not reject it.
C1_CapacityCheck ==
  [][db'.op = "insert_user_memberships" =>
       LET n == CountRows(user_memberships,
                  {r \in DOMAIN user_memberships :
                     r.trainer_id = db'.arg.trainer_id /\ r.status = "active"})
       IN /\ n >= 10 => /\ ~db'.ok
                        /\ db'.err = "Trainer has reached maximum client capacity"
                        /\ user_memberships' = user_memberships
          /\ n < 10 => db'.err # "Trainer has reached maximum client capacity"]_vars

\* An insert for a trainer at capacity has been rejected.
C1_Witness ==
  /\ db.op = "insert_user_memberships"
  /\ db.err = "Trainer has reached maximum client capacity"
  /\ CountRows(user_memberships,
       {r \in DOMAIN user_memberships :
          r.trainer_id = db.arg.trainer_id /\ r.status = "active"}) = 10

\* C2: in every reachable state no trainer has more than 10 active
\* user_memberships rows.
C2_TrainerNeverOverCapacity ==
  \A t \in trainers :
    CountRows(user_memberships,
      {r \in DOMAIN user_memberships : r.trainer_id = t /\ r.status = "active"}) <= 10

\* C3: update_membership_status() turns exactly the active rows whose
\* end_date is before the current date into expired rows and leaves every
\* other row as it was.
C3_Due(r) == r.status = "active" /\ r.end_date < today

C3_Expiry ==
  [][db'.op = "update_membership_status" =>
       \A x \in DOMAIN user_memberships \cup DOMAIN user_memberships' :
         CopiesIn(x, user_memberships') =
           (IF C3_Due(x) THEN 0 ELSE CopiesIn(x, user_memberships))
           + (IF x.status = "expired" /\ x.end_date < today
                THEN CopiesIn([x EXCEPT !.status = "active"], user_memberships)
                ELSE 0)]_vars

\* update_membership_status() has expired a row and left another active.
C3_Witness ==
  /\ db.op = "update_membership_status"
  /\ db.rewrote > 0
  /\ \E r \in DOMAIN user_memberships : r.status = "active"

\* C4: after an update of a payments row whose new status is 'completed',
\* every user_memberships row with the payment's user_id and membership_id is
\* active; after an update to another status no user_memberships row changes.
C4_PaymentActivates ==
  [][db'.op = "update_payments" =>
       /\ db'.arg.status = "completed" =>
            \A r \in DOMAIN user_memberships' :
              r.user_id = db'.arg.user_id /\ r.membership_id = db'.arg.membership_id
                => r.status = "active"
       /\ db'.arg.status # "completed" => user_memberships' = user_memberships]_vars

\* A completed payment has reactivated a membership.
C4_Witness ==
  /\ db.op = "update_payments"
  /\ db.arg.status = "completed"
  /\ db.rewrote > 0

\* C5: register_new_member for an existing plan and a trainer below capacity
\* adds exactly one user_memberships row (active, the given start_date,
\* end_date = start_date + duration_months months) and exactly one pending
\* payments row for the same user and plan with the plan's price as amount.
C5_RegisterCreatesMembershipAndPayment ==
  [][(/\ db'.op = "register_new_member"
      /\ db'.arg.membership_id \in DOMAIN memberships
      /\ CountRows(user_memberships,
           {r \in DOMAIN user_memberships :
              r.trainer_id = db'.arg.trainer_id /\ r.status = "active"}) < 10)
     => LET a == db'.arg
            plan == memberships[a.membership_id]
        IN /\ \E r \in DOMAIN user_memberships' :
                /\ user_memberships' = user_memberships (+) SetToBag({r})
                /\ r.user_id = a.user_id /\ r.membership_id = a.membership_id
                /\ r.trainer_id = a.trainer_id /\ r.status = "active"
                /\ r.start_date = a.start_date
                /\ r.end_date = AddMonths(a.start_date, plan.duration_months)
           /\ \E p \in DOMAIN payments' :
                /\ payments' = payments (+) SetToBag({p})
                /\ p.user_id = a.user_id /\ p.membership_id = a.membership_id
                /\ p.status = "pending" /\ p.amount = plan.price]_vars

\* C6: every successful INSERT, UPDATE or DELETE of a users row adds exactly
\* one audit_logs entry naming the table, the affected row's id, the
\* operation and the old and new row data.
C6_UserChangeAudited ==
  [][(db'.op \in {"insert_users", "update_users", "delete_users"} /\ db'.ok)
     => /\ Len(audit_logs') = Len(audit_logs) + 1
        /\ SubSeq(audit_logs', 1, Len(audit_logs)) = audit_logs
        /\ LET e == audit_logs'[Len(audit_logs')]
           IN /\ e.table_name = "users"
              /\ e.record_id = db'.arg.id
              /\ e.action = (CASE db'.op = "insert_users" -> "INSERT"
                               [] db'.op = "update_users" -> "UPDATE"
                               [] OTHER -> "DELETE")
              /\ db'.op # "insert_users" =>
                   e.old_data = <<"id", db'.arg.id, "role", users[db'.arg.id]>>
              /\ db'.op # "delete_users" =>
                   e.new_data = <<"id", db'.arg.id, "role", users'[db'.arg.id]>>]_vars

Sent(request) == \E i \in 1..Len(ui.requests) : ui.requests[i] = request

\* C7: a submit whose sign-in returned no error navigates exactly once: to
\* '/admin' when the users row of the signed-in user was read and has role
\* 'admin', and to '/dashboard' in every other case (role client or trainer,
\* or the row not readable).
C7_LoginRouting ==
  (/\ ui.handler = "LoginPage.handleSubmit"
   /\ Sent("auth.signInWithPassword")
   /\ "auth.signInWithPassword" \notin ui.errors)
  => LET admin == /\ "users.select" \notin ui.errors
                  /\ ui.user \in DOMAIN users
                  /\ users[ui.user] = "admin"
     IN ui.navigated = IF admin THEN <<"/admin">> ELSE <<"/dashboard">>

\* An administrator has signed in and been sent to '/admin'.
C7_Witness ==
  /\ ui.handler = "LoginPage.handleSubmit"
  /\ ui.navigated = <<"/admin">>
  /\ session = "a1"

\* C8: a submit whose e-mail is not a valid address or whose password has
\* fewer than 8 characters sends no sign-in request; and whenever validation
\* fails or the sign-in returns an error, exactly the 'Login Failed' dialog is
\* shown, nothing is navigated to and users is not queried.
C8_LoginFailure ==
  ui.handler = "LoginPage.handleSubmit"
  => LET invalid == ~IsEmail(ui.form.email) \/ Len(ui.form.password) < 8
         failed == invalid \/ "auth.signInWithPassword" \in ui.errors
     IN /\ invalid => ui.requests = <<>>
        /\ failed => /\ ui.dialogs = <<[icon |-> "error", title |-> "Login Failed"]>>
                     /\ ui.navigated = <<>>
                     /\ ~Sent("users.select")

\* A submit with a malformed e-mail and a long enough password has failed.
C8_Witness ==
  /\ ui.handler = "LoginPage.handleSubmit"
  /\ ~IsEmail(ui.form.email)
  /\ Len(ui.form.password) >= 8
  /\ ui.dialogs # <<>>

\* C9: every error an SDK call returns results in an error dialog.
C9_EveryErrorShown ==
  ui.errors # {} => \E i \in 1..Len(ui.dialogs) : ui.dialogs[i].icon = "error"

\* C10: whenever RegisterPage shows 'Registration Successful' and navigates to
\* '/login', signUp returned no error, users holds a row with role 'client' for
\* the new user id and profiles holds a row with that id; in every other
\* outcome exactly the 'Registration Failed' dialog is shown and nothing is
\* navigated to.
C10_RegistrationOutcome ==
  ui.handler = "RegisterPage.handleSubmit"
  => IF ui.dialogs = <<[icon |-> "success", title |-> "Registration Successful"]>>
          /\ ui.navigated = <<"/login">>
       THEN /\ Sent("auth.signUp")
            /\ "auth.signUp" \notin ui.errors
            /\ ui.user \in DOMAIN users
            /\ users[ui.user] = "client"
            /\ ui.user \in DOMAIN profiles
       ELSE /\ ui.dialogs = <<[icon |-> "error", title |-> "Registration Failed"]>>
            /\ ui.navigated = <<>>

\* A registration has succeeded.
C10_Witness ==
  /\ ui.handler = "RegisterPage.handleSubmit"
  /\ ui.navigated = <<"/login">>
  /\ ui.user \in DOMAIN profiles

\* C11: a registration submit whose email is invalid, whose password has
\* fewer than 8 characters, whose full name has fewer than 2 characters, or
\* whose entered height or weight is not a positive number sends no request
\* (no signUp, no users insert, no profiles insert) and creates no account;
\* with those fields in order and an empty date of birth, empty height and
\* weight are accepted as absent and the submit goes on to signUp.
C11_NotPositive(text) ==
  text # <<>> /\ (parseFloat(text).nan \/ parseFloat(text).value <= 0)

C11_Invalid(f) ==
  \/ ~IsEmail(f.email)
  \/ Len(f.password) < 8
  \/ Len(f.fullName) < 2
  \/ C11_NotPositive(f.height)
  \/ C11_NotPositive(f.weight)

C11_FieldValidation ==
  [][ui'.handler = "RegisterPage.handleSubmit" /\ ui = Idle =>
       /\ C11_Invalid(ui'.form) =>
            /\ ui'.requests = <<>>
            /\ authUsers' = authUsers
            /\ users' = users
            /\ profiles' = profiles
       /\ ~C11_Invalid(ui'.form) /\ ui'.form.dateOfBirth = <<>> =>
            /\ Len(ui'.requests) >= 1
            /\ ui'.requests[1] = "auth.signUp"]_vars

\* A submit with a weight of 0 and every other field in order was refused
\* before any request.
C11_Witness ==
  /\ ui.handler = "RegisterPage.handleSubmit"
  /\ ui.form.weight = <<"0">>
  /\ ~C11_Invalid([ui.form EXCEPT !.weight = <<>>])
  /\ ui.form.height = <<>>
  /\ ui.requests = <<>>
  /\ ui.dialogs = <<ErrorDialog("Registration Failed")>>

\* C12: an authenticated user reads a profiles row only if it is their own
\* row, or they are the trainer_id of some user_memberships row whose
\* user_id is that profile, or their users row has role 'admin'.
C12_MayRead(uid, id) ==
  \/ uid = id
  \/ \E r \in DOMAIN user_memberships : r.trainer_id = uid /\ r.user_id = id
  \/ uid \in DOMAIN users /\ users[uid] = "admin"

C12_ProfilesRowSecurity ==
  [][db'.op = "select" =>
       \A id \in result'.profiles : C12_MayRead(result'.uid, id)]_vars

\* C13: for a signed-in user (with a profile) who has exactly one active
\* membership, ClientDashboard displays that membership's plan name, its
\* end date as expiry and its trainer's name ('No trainer assigned' when it
\* has no trainer), provided the backend answers; it displays
\* 'No active membership' only when the user has no active membership.
C13_Active(uid) ==
  {r \in DOMAIN user_memberships : r.user_id = uid /\ r.status = "active"}

C13_DashboardShowsMembership ==
  [][/\ ui'.handler = "ClientDashboard.fetchUserData"
     /\ db'.op = "select"
     /\ session \in DOMAIN profiles
     /\ ui'.user = session
     => LET mine == C13_Active(session)
        IN /\ CountRows(user_memberships, mine) = 1 =>
                LET r == CHOOSE x \in mine : TRUE
                IN /\ screen'.membership = memberships[r.membership_id].name
                   /\ screen'.expires = r.end_date
                   /\ screen'.trainer = IF r.trainer_id \in DOMAIN profiles
                                          THEN profiles[r.trainer_id].full_name
                                          ELSE NoTrainerAssigned
           /\ screen'.membership = NoActiveMembership =>
                CountRows(user_memberships, mine) = 0]_vars

\* C14: upcoming_renewals contains exactly one row for each
\* user_memberships row that has status 'active' and end_date from the
\* current date through the current date plus 30 days inclusive, and whose
\* user profile and plan exist; expired or cancelled memberships and
\* memberships ending outside that window never appear.
C14_Due ==
  {r \in DOMAIN user_memberships :
     /\ r.status = "active"
     /\ r.end_date \in today..(today + 30)
     /\ r.user_id \in DOMAIN profiles
     /\ r.membership_id \in DOMAIN memberships}

C14_Shows(v, r) ==
  /\ v.email = profiles[r.user_id].email
  /\ v.full_name = profiles[r.user_id].full_name
  /\ v.membership_plan = memberships[r.membership_id].name
  /\ v.renewal_amount = memberships[r.membership_id].price
  /\ v.end_date = r.end_date

C14_UpcomingRenewals ==
  [][db'.op = "select" /\ db'.arg.from = "upcoming_renewals" =>
       /\ BagCardinality(result'.rows) = CountRows(user_memberships, C14_Due)
       /\ \A r \in C14_Due : \E v \in DOMAIN result'.rows : C14_Shows(v, r)
       /\ \A v \in DOMAIN result'.rows :
            /\ \E r \in C14_Due : C14_Shows(v, r)
            /\ result'.rows[v] =
                 CountRows(user_memberships, {r \in C14_Due : C14_Shows(v, r)})]_vars

\* The view was read when one active membership ended on the last day of
\* the window and another the day after: only the first is in the result.
C14_Witness ==
  /\ db.op = "select"
  /\ result.from = "upcoming_renewals"
  /\ BagCardinality(result.rows) = 1
  /\ \E v \in DOMAIN result.rows : v.end_date = today + 30
  /\ \E r \in DOMAIN user_memberships :
       /\ r.status = "active" /\ r.end_date = today + 31
       /\ r.user_id \in DOMAIN profiles /\ r.membership_id \in DOMAIN memberships

\* C15: AdminDashboard's Total Revenue equals the sum of amount over exactly
\* the payments rows with status 'completed' (0 when there are none), when
\* the revenue request is answered and the policies show the admin the
\* rows; pending and failed payments never contribute.
C15_Amounts == {r.amount : r \in DOMAIN payments}

RECURSIVE C15_Total(_)
C15_Total(A) ==
  IF A = {} THEN 0
  ELSE LET a == CHOOSE x \in A : TRUE
       IN a * CountRows(payments, {r \in DOMAIN payments :
                                     r.amount = a /\ r.status = "completed"})
            + C15_Total(A \ {a})

C16_ConcurrentInserts ==
  InFlight = {} =>
    \A t \in trainers :
      CountRows(user_memberships,
        {r \in DOMAIN user_memberships : r.trainer_id = t /\ r.status = "active"}) <= 10

====
